---------------------------- MODULE Spec2Model ----------------------------
(* Model of the Mezzanine hooks deployed in CCLab/websites:                *)
(*   core/models.py      Slugged.save, Orderable.save/delete, Ownable      *)
(*   generic/fields.py   CommentsField, KeywordsField, RatingField         *)
(*   core/views.py       edit                                              *)
(* Strings are sequences of one-character strings.  Database tables are    *)
(* functions from primary keys to rows.                                    *)
EXTENDS Integers, Sequences, FiniteSets, TLC

VARIABLES
    slugRows,    \* Slugged table of one concrete model: id -> [title, slug]
    slugLast,    \* outcome of the last Slugged.save call
    racePc,      \* per request: position inside Slugged.save
    raceSlug,    \* per request: self.slug of the instance being saved
    raceI,       \* per request: loop counter i of Slugged.save
    raceId,      \* per request: id of the row the request inserted (0 = none)
    raceTitle,   \* the title both interleaved requests save
    ordRows,     \* Orderable table of one concrete model: id -> [group, order]
    ordNext,     \* next primary key the database hands out
    ordWrt,      \* whether the model's Meta names order_with_respect_to
    ordInst,     \* model instances held in memory: slot -> [id, group, order]
    ordLast,     \* the last Orderable.save / delete call: the instance it ran on
    genItems,    \* generic-relation side tables: id -> [kind, ct, pk, val]
    genNext,     \* next primary key of the side tables
    genParents,  \* parent rows: <<model, id>> -> the denormalized fields
    genCQ,       \* whether the comments manager defines count_queryset()
    genLast,     \* the related item whose post_save / post_delete ran last
    editObjs,    \* editable objects: id -> [ownable, user_id, content]
    editLog,     \* admin log entries written by log_change
    editLast,    \* the last request to the edit view, what it found and answered
    hdlPc,       \* per request: position inside the comment save and its handler
    hdlInstance, \* per request: the parent row the handler fetched
    hdlCount,    \* per request: the count the handler computed
    hdlId,       \* per request: id of the comment the request inserted
    thrComments, \* comments of the object: id -> [replied_to_id (0 = None), val]
    thrStaff,    \* whether context['request'].user.is_staff holds
    thrCtx,      \* the template context: whether all_comments is set, and its value
    thrStack,    \* comments whose {% comment_thread %} call is still to be rendered
    thrOut,      \* every comment yielded in comments_for_thread so far, in order
    thrLast,     \* the last comment_thread call and what it put in the context
    mnuPages,    \* Page table: id -> [parent_id (0 = None), _order, published]
    mnuCtx,      \* the template context: menu_template_name, menu_pages, branch_level
    mnuLevel,    \* the branch_level attribute of the page objects that have one
    mnuStack,    \* listed pages the menu template has still to go through
    mnuLast      \* the last page_menu call and the page_branch it listed

slugVars == <<slugRows, slugLast>>
raceVars == <<racePc, raceSlug, raceI, raceId, raceTitle>>
ordVars == <<ordRows, ordNext, ordWrt, ordInst, ordLast>>
editVars == <<editObjs, editLog, editLast>>
genVars == <<genItems, genNext, genParents, genCQ, genLast>>
hdlVars == <<hdlPc, hdlInstance, hdlCount, hdlId>>
thrVars == <<thrComments, thrStaff, thrCtx, thrStack, thrOut, thrLast>>
mnuVars == <<mnuPages, mnuCtx, mnuLevel, mnuStack, mnuLast>>
vars == <<slugRows, slugLast, racePc, raceSlug, raceI, raceId, raceTitle,
          ordRows, ordNext, ordWrt, ordInst, ordLast,
          genItems, genNext, genParents, genCQ, genLast,
          editObjs, editLog, editLast,
          hdlPc, hdlInstance, hdlCount, hdlId,
          thrComments, thrStaff, thrCtx, thrStack, thrOut, thrLast,
          mnuPages, mnuCtx, mnuLevel, mnuStack, mnuLast>>

-----------------------------------------------------------------------------
(* Bounds *)

MaxSlugRows == 3
MaxOrdIds == 4
MaxItemIds == 2
MaxLog == 2

\* most comments an object has
MaxComments == 3

\* most pages the site has
MaxPages == 3

-----------------------------------------------------------------------------
(* Strings *)

RECURSIVE Digits(_)
\* "%s" % i for a non-negative integer i (decimal digits, most significant first)
Digits(i) ==
    LET d == <<"0", "1", "2", "3", "4", "5", "6", "7", "8", "9">>[(i % 10) + 1]
    IN  IF i < 10 THEN <<d>> ELSE Digits(i \div 10) \o <<d>>

\* position of the last "-" in s, 0 when there is none
LastDash(s) ==
    LET ps == {p \in 1..Len(s) : s[p] = "-"}
    IN  IF ps = {} THEN 0 ELSE CHOOSE p \in ps : \A q \in ps : q <= p

\* s.rsplit("-", 1)[0]
RsplitHead(s) ==
    IF LastDash(s) = 0 THEN s ELSE SubSeq(s, 1, LastDash(s) - 1)

\* "%s-%s" % (s, i)
WithIndex(s, i) == s \o <<"-">> \o Digits(i)

\* one character of mezzanine.utils.urls.slugify: lower-case, blanks to "-"
SlugifyChar(c) ==
    CASE c = "A" -> "a"
      [] c = " " -> "-"
      [] OTHER   -> c

RECURSIVE slugify(_)
\* mezzanine.utils.urls.slugify: runs of blanks and dashes collapse to one "-"
slugify(s) ==
    IF s = <<>> THEN <<>>
    ELSE LET rest == slugify(Tail(s))
             c    == SlugifyChar(Head(s))
         IN  IF c = "-" /\ rest # <<>> /\ Head(rest) = "-"
             THEN rest
             ELSE <<c>> \o rest

\* Slugged.get_slug
get_slug(title) == slugify(title)

-----------------------------------------------------------------------------
(* Slugged (core/models.py) *)

Titles == {<<"A">>, <<"a", " ", "1">>}

\* slugs a caller may put on the instance before calling save
SuppliedSlugs == {<<"a">>}

NoSave == [id |-> 0, title |-> <<>>, slug |-> <<>>, raised |-> FALSE]

\* qs = concrete_model.objects.all(); qs.exclude(id=self.id) when self.id is set
SlugQs(id) == IF id # 0 THEN DOMAIN slugRows \ {id} ELSE DOMAIN slugRows

\* qs.get(slug=s): the number of rows of qs with that slug decides the outcome
SlugMatches(qs, s) == Cardinality({r \in qs : slugRows[r].slug = s})

RECURSIVE SlugLoop(_, _, _)
\* the while-loop of Slugged.save, entered with self.slug = slug and counter i
SlugLoop(slug, i, qs) ==
    LET s == IF i > 0
             THEN WithIndex(IF i > 1 THEN RsplitHead(slug) ELSE slug, i)
             ELSE slug
        n == SlugMatches(qs, s)
    IN  IF n = 0 THEN [raised |-> FALSE, slug |-> s]          \* ObjectDoesNotExist: break
        ELSE IF n = 1 THEN SlugLoop(s, i + 1, qs)                \* found: i += 1
        ELSE [raised |-> TRUE, slug |-> s]                       \* MultipleObjectsReturned

\* the slug Slugged.save leaves on the instance
SlugFor(id, title, slug) ==
    IF slug = <<>>
    THEN SlugLoop(get_slug(title), 0, SlugQs(id))
    ELSE [raised |-> FALSE, slug |-> slug]

\* Slugged.save on an instance (id = 0: not yet stored) with the given fields
SluggedSave(id, title, slug) ==
    LET out == SlugFor(id, title, slug)
        pk  == IF id # 0 THEN id ELSE Cardinality(DOMAIN slugRows) + 1
    IN  /\ slugLast' = [id |-> pk, title |-> title, slug |-> slug,
                        raised |-> out.raised]
        /\ slugRows' = IF out.raised THEN slugRows
                       ELSE [r \in DOMAIN slugRows \cup {pk} |->
                               IF r = pk THEN [title |-> title, slug |-> out.slug]
                               ELSE slugRows[r]]

\* a request saves a new record
SaveNew ==
    /\ Cardinality(DOMAIN slugRows) < MaxSlugRows
    /\ \E title \in Titles, slug \in {<<>>} \cup SuppliedSlugs :
           SluggedSave(0, title, slug)
    /\ UNCHANGED <<raceVars, ordVars, genVars, editVars, hdlVars, thrVars, mnuVars>>

\* a request loads a stored record, possibly edits title and slug, and saves it
SaveExisting ==
    /\ \E id \in DOMAIN slugRows, title \in Titles :
         \E slug \in {<<>>, slugRows[id].slug} \cup SuppliedSlugs :
           SluggedSave(id, title, slug)
    /\ UNCHANGED <<raceVars, ordVars, genVars, editVars, hdlVars, thrVars, mnuVars>>

NoInst == [id |-> 0, group |-> 0, order |-> 0]

NoOrdCall == [op |-> "none", id |-> 0, group |-> 0, order |-> 0]

InitOrdIdle ==
    /\ ordRows = <<>>
    /\ ordNext = 1
    /\ ordWrt = TRUE
    /\ ordInst = <<>>
    /\ ordLast = NoOrdCall

\* models that carry the generic-relation fields, and their stored rows
Parents == {<<"page", 1>>, <<"page", 2>>, <<"post", 1>>}

\* defaults of the fields each relation adds to its model (fields.py:97,122,193)
NewParent == [comments_count |-> 0, keywords_string |-> <<>>,
              rating_count |-> 0, rating_average |-> <<0, 1>>]

NoItem == [op |-> "none", kind |-> "none", ct |-> "none", pk |-> 0]

InitGenIdle ==
    /\ genItems = <<>>
    /\ genNext = 1
    /\ genParents = [p \in Parents |-> NewParent]
    /\ genCQ = FALSE
    /\ genLast = NoItem

NoEdit == [user |-> <<>>, id |-> 0, data |-> "", before |-> <<>>, logged |-> 0,
           response |-> ""]

InitEditIdle ==
    /\ editObjs = <<>>
    /\ editLog = <<>>
    /\ editLast = NoEdit

InitSlug ==
    /\ slugRows = <<>>
    /\ slugLast = NoSave

InitHdlIdle ==
    /\ hdlPc = <<>>
    /\ hdlInstance = <<>>
    /\ hdlCount = <<>>
    /\ hdlId = <<>>

NoThreadCall ==
    [called |-> FALSE, first |-> FALSE, parent |-> 0, comments_for_thread |-> <<>>,
     no_comments |-> FALSE]

InitThrIdle ==
    /\ thrComments = <<>>
    /\ thrStaff = FALSE
    /\ thrCtx = [set |-> FALSE, all_comments |-> <<>>]
    /\ thrStack = <<>>
    /\ thrOut = <<>>
    /\ thrLast = NoThreadCall

NoMenuCall ==
    [called |-> FALSE, raised |-> FALSE, parent |-> 0, page_branch |-> <<>>,
     branch_level |-> 0]

NoMenuCtx ==
    [has_template |-> FALSE, has_pages |-> FALSE, menu_pages |-> <<>>,
     branch_level |-> 0]

InitMnuIdle ==
    /\ mnuPages = <<>>
    /\ mnuCtx = NoMenuCtx
    /\ mnuLevel = <<>>
    /\ mnuStack = <<>>
    /\ mnuLast = NoMenuCall

InitRaceIdle ==
    /\ racePc = <<>>
    /\ raceSlug = <<>>
    /\ raceI = <<>>
    /\ raceId = <<>>
    /\ raceTitle = <<>>

Init ==
    /\ InitSlug
    /\ InitMnuIdle
    /\ InitThrIdle
    /\ InitHdlIdle
    /\ InitRaceIdle
    /\ InitOrdIdle
    /\ InitGenIdle
    /\ InitEditIdle

Next == SaveNew \/ SaveExisting

Spec == Init /\ [][Next]_vars

-----------------------------------------------------------------------------
(* Two requests inside Slugged.save at once.  Every query and the final   *)
(* INSERT is one database statement; nothing else orders the requests.     *)

Requests == {1, 2}

\* lines 38-43: the slug is empty, so self.slug = self.get_slug() and i = 0
RaceStart(p) ==
    /\ racePc[p] = "start"
    /\ raceSlug' = [raceSlug EXCEPT ![p] = get_slug(raceTitle)]
    /\ raceI' = [raceI EXCEPT ![p] = 0]
    /\ racePc' = [racePc EXCEPT ![p] = "query"]
    /\ UNCHANGED <<slugVars, raceId, raceTitle, ordVars, genVars, editVars,
                   hdlVars, thrVars, mnuVars>>

\* lines 44-56: one pass of the loop, up to and including qs.get(slug=self.slug)
RaceQuery(p) ==
    /\ racePc[p] = "query"
    /\ LET i == raceI[p]
           s == IF i > 0
                THEN WithIndex(IF i > 1 THEN RsplitHead(raceSlug[p])
                               ELSE raceSlug[p], i)
                ELSE raceSlug[p]
           n == SlugMatches(SlugQs(0), s)
       IN  /\ raceSlug' = [raceSlug EXCEPT ![p] = s]
           /\ raceI' = [raceI EXCEPT ![p] = IF n = 1 THEN i + 1 ELSE i]
           /\ racePc' = [racePc EXCEPT ![p] =
                            IF n = 0 THEN "insert"
                            ELSE IF n = 1 THEN "query" ELSE "raised"]
    /\ UNCHANGED <<slugVars, raceId, raceTitle, ordVars, genVars, editVars,
                   hdlVars, thrVars, mnuVars>>

\* line 57: super(Slugged, self).save() inserts the row
RaceInsert(p) ==
    /\ racePc[p] = "insert"
    /\ LET pk == Cardinality(DOMAIN slugRows) + 1
       IN  /\ slugRows' = [r \in DOMAIN slugRows \cup {pk} |->
                              IF r = pk
                              THEN [title |-> raceTitle, slug |-> raceSlug[p]]
                              ELSE slugRows[r]]
           /\ raceId' = [raceId EXCEPT ![p] = pk]
    /\ racePc' = [racePc EXCEPT ![p] = "done"]
    /\ UNCHANGED <<slugLast, raceSlug, raceI, raceTitle, ordVars, genVars,
                   editVars, hdlVars, thrVars, mnuVars>>

\* another request's whole save, with the slug left empty
RaceOther ==
    /\ Cardinality(DOMAIN slugRows) < MaxSlugRows
    /\ \E title \in Titles : SluggedSave(0, title, <<>>)
    /\ UNCHANGED <<raceVars, ordVars, genVars, editVars, hdlVars, thrVars, mnuVars>>

InitRace ==
    /\ InitSlug
    /\ InitMnuIdle
    /\ InitThrIdle
    /\ InitHdlIdle
    /\ InitEditIdle
    /\ InitOrdIdle
    /\ InitGenIdle
    /\ racePc = [p \in Requests |-> "start"]
    /\ raceSlug = [p \in Requests |-> <<>>]
    /\ raceI = [p \in Requests |-> 0]
    /\ raceId = [p \in Requests |-> 0]
    /\ raceTitle \in Titles

NextRace ==
    \/ RaceOther
    \/ \E p \in Requests : RaceStart(p)
    \/ \E p \in Requests : RaceQuery(p)
    \/ \E p \in Requests : RaceInsert(p)

SpecRace == InitRace /\ [][NextRace]_vars

-----------------------------------------------------------------------------
(* Orderable (core/models.py) *)

\* values of the order_with_respect_to field
Groups == {1, 2}

\* two holders of in-memory instances (two requests, or two variables of one)
OrdSlots == {1, 2}

\* concrete_model.objects.filter(**self.with_respect_to()): with_respect_to is
\* {field: getattr(self, field)}, or {} when the model names no such field
with_respect_to(group) ==
    {r \in DOMAIN ordRows : ordWrt => ordRows[r].group = group}

\* lines 231-234 of Orderable.save: the value self._order has after them
\* (unset: self._order is None)
OrderOnSave(group, unset, order) ==
    IF unset THEN Cardinality(with_respect_to(group)) ELSE order

\* lines 241-245 of Orderable.delete: filter(_order__gte=self._order) within
\* the lookup, then update(_order=F("_order") - 1)
UpdateAfter(group, order) ==
    [r \in DOMAIN ordRows |->
        IF r \in with_respect_to(group) /\ ordRows[r].order >= order
        THEN [ordRows[r] EXCEPT !.order = @ - 1]
        ELSE ordRows[r]]

\* Orderable.save of a new instance whose _order is None
OrdCreate ==
    /\ ordNext <= MaxOrdIds
    /\ \E g \in Groups :
         LET o == OrderOnSave(g, TRUE, 0)
         IN  /\ ordRows' = [r \in DOMAIN ordRows \cup {ordNext} |->
                               IF r = ordNext THEN [group |-> g, order |-> o]
                               ELSE ordRows[r]]
             /\ ordLast' = [op |-> "create", id |-> ordNext, group |-> g,
                            order |-> o]
    /\ ordNext' = ordNext + 1
    /\ UNCHANGED <<ordWrt, ordInst, slugVars, raceVars, genVars, editVars,
                   hdlVars, thrVars, mnuVars>>

\* concrete_model.objects.get(id=id): an instance is read into memory
OrdLoad ==
    /\ \E slot \in OrdSlots, id \in DOMAIN ordRows :
         /\ ordInst[slot] # [id |-> id, group |-> ordRows[id].group,
                              order |-> ordRows[id].order]
         /\ ordInst' = [ordInst EXCEPT ![slot] =
                           [id |-> id, group |-> ordRows[id].group,
                            order |-> ordRows[id].order]]
    /\ UNCHANGED <<ordRows, ordNext, ordWrt, ordLast, slugVars, raceVars,
                   genVars, editVars, hdlVars, thrVars, mnuVars>>

\* Orderable.save of a held instance whose row is stored
OrdSave ==
    /\ \E slot \in OrdSlots :
         LET inst == ordInst[slot]
             o    == OrderOnSave(inst.group, FALSE, inst.order)
         IN  /\ inst # NoInst
             /\ inst.id \in DOMAIN ordRows
             /\ ordRows' = [ordRows EXCEPT ![inst.id] =
                               [group |-> inst.group, order |-> o]]
             /\ ordLast' = [op |-> "save", id |-> inst.id, group |-> inst.group,
                            order |-> inst.order]
    /\ UNCHANGED <<ordNext, ordWrt, ordInst, slugVars, raceVars, genVars,
                   editVars, hdlVars, thrVars, mnuVars>>

\* Orderable.delete of a held instance whose row is stored
OrdDelete ==
    /\ \E slot \in OrdSlots :
         LET inst    == ordInst[slot]
             updated == UpdateAfter(inst.group, inst.order)
         IN  /\ inst # NoInst
             /\ inst.id \in DOMAIN ordRows
             /\ ordRows' = [r \in DOMAIN ordRows \ {inst.id} |-> updated[r]]
             /\ ordInst' = [ordInst EXCEPT ![slot] = NoInst]
             /\ ordLast' = [op |-> "delete", id |-> inst.id, group |-> inst.group,
                            order |-> inst.order]
    /\ UNCHANGED <<ordNext, ordWrt, slugVars, raceVars, genVars, editVars,
                   hdlVars, thrVars, mnuVars>>

InitOrd ==
    /\ InitSlug
    /\ InitMnuIdle
    /\ InitThrIdle
    /\ InitHdlIdle
    /\ InitEditIdle
    /\ InitRaceIdle
    /\ InitGenIdle
    /\ ordRows = <<>>
    /\ ordNext = 1
    /\ ordWrt \in BOOLEAN
    /\ ordInst = [slot \in OrdSlots |-> NoInst]
    /\ ordLast = NoOrdCall

NextOrd == OrdCreate \/ OrdLoad \/ OrdSave \/ OrdDelete

SpecOrd == InitOrd /\ [][NextOrd]_vars

-----------------------------------------------------------------------------
(* Generic relations with denormalized fields (generic/fields.py) *)

\* related_model of CommentsField, KeywordsField and RatingField
Kinds == {"comment", "keyword", "rating"}

\* the value a related row carries: a comment is visible (1) or not (0), an
\* assigned keyword names a keyword, a rating has a value
ValsOf(kind) == IF kind = "comment" THEN {0, 1} ELSE {1, 2}

\* unicode(a.keyword)
KeywordTitle(k) == IF k = 1 THEN <<"x">> ELSE <<"y", "z">>

\* the relation fields in the order their handlers were connected
Fields ==
    <<[kind |-> "comment", model |-> "page"], [kind |-> "keyword", model |-> "page"],
      [kind |-> "rating", model |-> "page"], [kind |-> "comment", model |-> "post"],
      [kind |-> "keyword", model |-> "post"], [kind |-> "rating", model |-> "post"]>>

\* issubclass(for_model, self.model): "subpage" is a multi-table subclass of
\* "page" (its rows share the ids of their page rows)
issubclass(a, b) == a = b \/ (a = "subpage" /\ b = "page")

RECURSIVE SortedIds(_)
\* the ids of a queryset in the order the database returns them (by id)
SortedIds(S) ==
    IF S = {} THEN <<>>
    ELSE LET m == CHOOSE x \in S : \A y \in S : x <= y
         IN  <<m>> \o SortedIds(S \ {m})

RECURSIVE SumSeq(_)
\* sum(ratings)
SumSeq(q) == IF q = <<>> THEN 0 ELSE Head(q) + SumSeq(Tail(q))

RECURSIVE StrJoin(_, _)
\* sep.join(list)
StrJoin(sep, list) ==
    IF list = <<>> THEN <<>>
    ELSE IF Len(list) = 1 THEN list[1]
    ELSE list[1] \o sep \o StrJoin(sep, Tail(list))

RECURSIVE Gcd(_, _)
Gcd(a, b) == IF b = 0 THEN a ELSE Gcd(b, a % b)

\* n / float(d), kept exactly as a fraction in lowest terms
FloatDiv(n, d) == <<n \div Gcd(n, d), d \div Gcd(n, d)>>

\* getattr(instance, self.related_field_name): the rows of the field's related
\* model whose content type and object_pk name the parent p
Related(items, kind, p) ==
    {x \in DOMAIN items :
        items[x].kind = kind /\ items[x].ct = p[1] /\ items[x].pk = p[2]}

\* related_manager.count_queryset(): the visible comments
count_queryset(items, rel) == Cardinality({x \in rel : items[x].val = 1})

\* CommentsField.related_items_changed without the count_queryset() lookup
CommentsChangedPlainCount(items, parents, p) ==
    [parents EXCEPT ![p].comments_count =
        Cardinality(Related(items, "comment", p))]

\* CommentsField.related_items_changed
CommentsChanged(items, parents, p) ==
    LET rel   == Related(items, "comment", p)
        count == IF genCQ THEN count_queryset(items, rel) ELSE Cardinality(rel)
    IN  [parents EXCEPT ![p].comments_count = count]

\* KeywordsField.related_items_changed joining with "" instead of " "
KeywordsChangedNoSpace(items, parents, p) ==
    LET assigned == SortedIds(Related(items, "keyword", p))
        keywords == StrJoin(<<>>, [k \in 1..Len(assigned) |->
                                      KeywordTitle(items[assigned[k]].val)])
    IN  [parents EXCEPT ![p].keywords_string = keywords]

\* KeywordsField.related_items_changed
KeywordsChanged(items, parents, p) ==
    LET assigned == SortedIds(Related(items, "keyword", p))
        keywords == StrJoin(<<" ">>, [k \in 1..Len(assigned) |->
                                        KeywordTitle(items[assigned[k]].val)])
    IN  IF parents[p].keywords_string # keywords
        THEN [parents EXCEPT ![p].keywords_string = keywords]
        ELSE parents

\* RatingField.related_items_changed dividing integers (no float())
RatingChangedIntDiv(items, parents, p) ==
    LET ids     == SortedIds(Related(items, "rating", p))
        ratings == [k \in 1..Len(ids) |-> items[ids[k]].val]
        count   == Len(ratings)
        average == IF count > 0 THEN <<SumSeq(ratings) \div count, 1>> ELSE <<0, 1>>
    IN  [parents EXCEPT ![p].rating_count = count, ![p].rating_average = average]

\* RatingField.related_items_changed
RatingChanged(items, parents, p) ==
    LET ids     == SortedIds(Related(items, "rating", p))
        ratings == [k \in 1..Len(ids) |-> items[ids[k]].val]
        count   == Len(ratings)
        average == IF count > 0 THEN FloatDiv(SumSeq(ratings), count) ELSE <<0, 1>>
    IN  [parents EXCEPT ![p].rating_count = count, ![p].rating_average = average]

\* BaseGenericRelation._related_items_changed without the isinstance and
\* issubclass checks: every handler recomputes the row of its model with the
\* instance's object_pk
related_items_changedUnfiltered(f, inst, items, parents) ==
    LET p == <<f.model, inst.pk>>
    IN  CASE p \notin DOMAIN parents -> parents
          [] f.kind = "comment" -> CommentsChanged(items, parents, p)
          [] f.kind = "keyword" -> KeywordsChanged(items, parents, p)
          [] f.kind = "rating"  -> RatingChanged(items, parents, p)

\* BaseGenericRelation._related_items_changed of the field f, for a saved or
\* deleted instance inst
related_items_changed(f, inst, items, parents) ==
    IF inst.kind # f.kind THEN parents            \* not isinstance(instance, rel.to)
    ELSE IF issubclass(inst.ct, f.model)
    THEN LET p == <<f.model, inst.pk>>              \* self.model.objects.get(id=object_pk)
         IN  CASE p \notin DOMAIN parents -> parents \* get raises DoesNotExist
               [] f.kind = "comment" -> CommentsChanged(items, parents, p)
               [] f.kind = "keyword" -> KeywordsChanged(items, parents, p)
               [] f.kind = "rating"  -> RatingChanged(items, parents, p)
    ELSE parents

RECURSIVE Dispatch(_, _, _, _)
\* post_save / post_delete sent without a sender filter: every connected
\* handler runs, from the k-th on
Dispatch(k, inst, items, parents) ==
    IF k > Len(Fields) THEN parents
    ELSE Dispatch(k + 1, inst, items,
                  related_items_changed(Fields[k], inst, items, parents))

\* a related row is saved (id = genNext: a new row) and post_save is sent
GenSave(kind, id) ==
    \E p \in Parents, v \in ValsOf(kind) :
        LET inst  == [kind |-> kind, ct |-> p[1], pk |-> p[2], val |-> v]
            items == [x \in DOMAIN genItems \cup {id} |->
                         IF x = id THEN inst ELSE genItems[x]]
        IN  /\ genItems' = items
            /\ genParents' = Dispatch(1, inst, items, genParents)
            /\ genLast' = [op |-> "save", kind |-> kind, ct |-> p[1], pk |-> p[2]]

GenCreate(kind) ==
    /\ genNext <= MaxItemIds
    /\ GenSave(kind, genNext)
    /\ genNext' = genNext + 1
    /\ UNCHANGED <<genCQ, slugVars, raceVars, ordVars, editVars, hdlVars,
                   thrVars, mnuVars>>

GenResave(kind) ==
    /\ \E id \in DOMAIN genItems : genItems[id].kind = kind /\ GenSave(kind, id)
    /\ UNCHANGED <<genNext, genCQ, slugVars, raceVars, ordVars, editVars,
                   hdlVars, thrVars, mnuVars>>

\* a related row is deleted and post_delete is sent
GenDelete(kind) ==
    /\ \E id \in DOMAIN genItems :
         LET inst  == genItems[id]
             items == [x \in DOMAIN genItems \ {id} |-> genItems[x]]
         IN  /\ inst.kind = kind
             /\ genItems' = items
             /\ genParents' = Dispatch(1, inst, items, genParents)
             /\ genLast' = [op |-> "delete", kind |-> kind, ct |-> inst.ct,
                            pk |-> inst.pk]
    /\ UNCHANGED <<genNext, genCQ, slugVars, raceVars, ordVars, editVars,
                   hdlVars, thrVars, mnuVars>>

CommentCreate == GenCreate("comment")
CommentResave == GenResave("comment")
CommentDelete == GenDelete("comment")

KeywordCreate == GenCreate("keyword")
KeywordResave == GenResave("keyword")
KeywordDelete == GenDelete("keyword")

RatingCreate == GenCreate("rating")
RatingResave == GenResave("rating")
RatingDelete == GenDelete("rating")

InitGen ==
    /\ InitSlug
    /\ InitMnuIdle
    /\ InitThrIdle
    /\ InitHdlIdle
    /\ InitEditIdle
    /\ InitRaceIdle
    /\ InitOrdIdle
    /\ genItems = <<>>
    /\ genNext = 1
    /\ genParents = [p \in Parents |-> NewParent]
    /\ genLast = NoItem

InitComments == InitGen /\ genCQ \in BOOLEAN

NextComments == CommentCreate \/ CommentResave \/ CommentDelete

SpecComments == InitComments /\ [][NextComments]_vars

InitKeywords == InitGen /\ genCQ = FALSE

NextKeywords == KeywordCreate \/ KeywordResave \/ KeywordDelete

SpecKeywords == InitKeywords /\ [][NextKeywords]_vars

InitRatings == InitGen /\ genCQ = FALSE

NextRatings == RatingCreate \/ RatingResave \/ RatingDelete

SpecRatings == InitRatings /\ [][NextRatings]_vars

\* Signals of any model: post_save and post_delete are connected without a
\* sender, so the handlers also see instances of models that are no related
\* model ("other") and related rows whose content type names a model without
\* the field or a subclass of the field's model
SignalKinds == {"comment", "rating", "other"}

\* content_type and object_pk of a related row; an instance of another model
\* has neither
SignalTargets(kind) ==
    IF kind = "other" THEN {<<"none", 0>>}
    ELSE {<<"page", 1>>, <<"page", 2>>, <<"post", 1>>, <<"subpage", 1>>}

\* a row of any model is saved (id = genNext: a new row) and post_save is sent
SignalSave(kind, id) ==
    \E t \in SignalTargets(kind) :
        LET inst  == [kind |-> kind, ct |-> t[1], pk |-> t[2], val |-> 1]
            items == [x \in DOMAIN genItems \cup {id} |->
                         IF x = id THEN inst ELSE genItems[x]]
        IN  /\ genItems' = items
            /\ genParents' = Dispatch(1, inst, items, genParents)
            /\ genLast' = [op |-> "save", kind |-> kind, ct |-> t[1], pk |-> t[2]]

SignalCreate ==
    /\ genNext <= MaxItemIds
    /\ \E kind \in SignalKinds : SignalSave(kind, genNext)
    /\ genNext' = genNext + 1
    /\ UNCHANGED <<genCQ, slugVars, raceVars, ordVars, editVars, hdlVars,
                   thrVars, mnuVars>>

SignalResave ==
    /\ \E id \in DOMAIN genItems : SignalSave(genItems[id].kind, id)
    /\ UNCHANGED <<genNext, genCQ, slugVars, raceVars, ordVars, editVars,
                   hdlVars, thrVars, mnuVars>>

\* a row of any model is deleted and post_delete is sent
SignalDelete ==
    /\ \E id \in DOMAIN genItems :
         LET inst  == genItems[id]
             items == [x \in DOMAIN genItems \ {id} |-> genItems[x]]
         IN  /\ genItems' = items
             /\ genParents' = Dispatch(1, inst, items, genParents)
             /\ genLast' = [op |-> "delete", kind |-> inst.kind, ct |-> inst.ct,
                            pk |-> inst.pk]
    /\ UNCHANGED <<genNext, genCQ, slugVars, raceVars, ordVars, editVars,
                   hdlVars, thrVars, mnuVars>>

InitSignals == InitGen /\ genCQ = FALSE

NextSignals == SignalCreate \/ SignalResave \/ SignalDelete

SpecSignals == InitSignals /\ [][NextSignals]_vars

\* Two requests each saving a new comment on the same parent.  The INSERT of
\* the comment and the three statements of the comments handler (fetch the
\* parent, count its comments, save the parent) are separate database
\* statements; nothing else orders the requests.
RaceParent == <<"page", 1>>

\* comment.save(): the INSERT, after which post_save is sent
HdlInsert(p) ==
    /\ hdlPc[p] = "insert"
    /\ \E v \in ValsOf("comment") :
         genItems' = [x \in DOMAIN genItems \cup {genNext} |->
                         IF x = genNext
                         THEN [kind |-> "comment", ct |-> RaceParent[1],
                               pk |-> RaceParent[2], val |-> v]
                         ELSE genItems[x]]
    /\ genNext' = genNext + 1
    /\ hdlId' = [hdlId EXCEPT ![p] = genNext]
    /\ hdlPc' = [hdlPc EXCEPT ![p] = "get"]
    /\ UNCHANGED <<genParents, genCQ, genLast, hdlInstance, hdlCount>>
    /\ UNCHANGED <<slugVars, raceVars, ordVars, editVars, thrVars, mnuVars>>

\* line 74: instance = self.model.objects.get(id=kwargs["instance"].object_pk)
HdlGet(p) ==
    /\ hdlPc[p] = "get"
    /\ hdlInstance' = [hdlInstance EXCEPT ![p] = genParents[RaceParent]]
    /\ hdlPc' = [hdlPc EXCEPT ![p] = "count"]
    /\ UNCHANGED <<hdlCount, hdlId, slugVars, raceVars, ordVars, genVars,
                   editVars, thrVars, mnuVars>>

\* lines 105-108: count = related_manager.count_queryset(), or .count()
HdlCount(p) ==
    /\ hdlPc[p] = "count"
    /\ LET rel == Related(genItems, "comment", RaceParent)
       IN  hdlCount' = [hdlCount EXCEPT ![p] =
                           IF genCQ THEN count_queryset(genItems, rel)
                           ELSE Cardinality(rel)]
    /\ hdlPc' = [hdlPc EXCEPT ![p] = "save"]
    /\ UNCHANGED <<hdlInstance, hdlId, slugVars, raceVars, ordVars, genVars,
                   editVars, thrVars, mnuVars>>

\* lines 109-111: setattr(instance, count_field_name, count); instance.save()
\* writes every column of the fetched instance
HdlSave(p) ==
    /\ hdlPc[p] = "save"
    /\ genParents' = [genParents EXCEPT ![RaceParent] =
                         [hdlInstance[p] EXCEPT !.comments_count = hdlCount[p]]]
    /\ genLast' = [op |-> "save", kind |-> "comment", ct |-> RaceParent[1],
                   pk |-> RaceParent[2]]
    /\ hdlPc' = [hdlPc EXCEPT ![p] = "done"]
    /\ UNCHANGED <<genItems, genNext, genCQ, hdlInstance, hdlCount, hdlId>>
    /\ UNCHANGED <<slugVars, raceVars, ordVars, editVars, thrVars, mnuVars>>

InitHdl ==
    /\ InitSlug
    /\ InitMnuIdle
    /\ InitThrIdle
    /\ InitRaceIdle
    /\ InitOrdIdle
    /\ InitEditIdle
    /\ genItems = <<>>
    /\ genNext = 1
    /\ genParents = [q \in Parents |-> NewParent]
    /\ genCQ \in BOOLEAN
    /\ genLast = NoItem
    /\ hdlPc = [p \in Requests |-> "insert"]
    /\ hdlInstance = [p \in Requests |-> NewParent]
    /\ hdlCount = [p \in Requests |-> 0]
    /\ hdlId = [p \in Requests |-> 0]

NextHdl ==
    \/ \E p \in Requests : HdlInsert(p)
    \/ \E p \in Requests : HdlGet(p)
    \/ \E p \in Requests : HdlCount(p)
    \/ \E p \in Requests : HdlSave(p)

SpecHdl == InitHdl /\ [][NextHdl]_vars

-----------------------------------------------------------------------------
(* comment_thread (generic/templatetags/comment_tags.py) *)

\* parent.comments.visible(): the comments shown to everyone
visible(comments) == {c \in DOMAIN comments : comments[c].val = 1}

\* lines 31-36: parent.comments.all() for staff, parent.comments.visible()
\* for everyone else and when the context has no request
comments_queryset(comments, staff) ==
    IF staff THEN DOMAIN comments ELSE visible(comments)

\* lines 30, 37-38: the defaultdict filled by
\* comments[comment.replied_to_id].append(comment); a key exists once a
\* comment was appended under it
GroupByRepliedTo(comments, qs) ==
    [k \in {comments[c].replied_to_id : c \in qs} |->
        SortedIds({c \in qs : comments[c].replied_to_id = k})]

\* comment_thread reading the mapping with the id of whatever it was given,
\* the object on the first call included (parent never reset to None)
comment_threadKeepParent(ctx, parent, comments, staff) ==
    LET first  == ~ctx.set
        all    == IF first
                  THEN GroupByRepliedTo(comments, comments_queryset(comments, staff))
                  ELSE ctx.all_comments
        key    == parent.id
    IN  [ctx |-> [set |-> TRUE, all_comments |-> all],
         first |-> first,
         comments_for_thread |-> IF key \in DOMAIN all THEN all[key] ELSE <<>>,
         no_comments |-> first /\ DOMAIN all = {}]

\* comment_thread(context, parent): parent is the object on the first call of
\* a context and a comment afterwards; None is written 0
comment_thread(ctx, parent, comments, staff) ==
    LET first  == ~ctx.set                            \* "all_comments" not in context
        all    == IF first
                  THEN GroupByRepliedTo(comments, comments_queryset(comments, staff))
                  ELSE ctx.all_comments
        key    == IF first THEN 0 ELSE parent.id        \* lines 40, 42
    IN  [ctx |-> [set |-> TRUE, all_comments |-> all],
         first |-> first,
         \* context["all_comments"].get(parent, [])
         comments_for_thread |-> IF key \in DOMAIN all THEN all[key] ELSE <<>>,
         \* parent is None and not comments
         no_comments |-> key = 0 /\ DOMAIN all = {}]

\* id of the object the comments are rendered for
ObjectId == 1

\* the template calls {% comment_thread object_for_comments %}
ThreadFirst ==
    /\ ~thrCtx.set
    /\ LET r == comment_thread(thrCtx, [is_comment |-> FALSE, id |-> ObjectId],
                               thrComments, thrStaff)
       IN  /\ thrCtx' = r.ctx
           /\ thrStack' = r.comments_for_thread
           /\ thrOut' = r.comments_for_thread
           /\ thrLast' = [called |-> TRUE, first |-> r.first, parent |-> 0,
                          comments_for_thread |-> r.comments_for_thread,
                          no_comments |-> r.no_comments]
    /\ UNCHANGED <<thrComments, thrStaff>>
    /\ UNCHANGED <<slugVars, raceVars, ordVars, genVars, editVars, hdlVars, mnuVars>>

\* the included template calls {% comment_thread comment %} for the next
\* comment it lists, and lists that call's comments before going on
ThreadReply ==
    /\ thrCtx.set
    /\ thrStack # <<>>
    /\ LET c == Head(thrStack)
           r == comment_thread(thrCtx, [is_comment |-> TRUE, id |-> c],
                               thrComments, thrStaff)
       IN  /\ thrCtx' = r.ctx
           /\ thrStack' = r.comments_for_thread \o Tail(thrStack)
           /\ thrOut' = thrOut \o r.comments_for_thread
           /\ thrLast' = [called |-> TRUE, first |-> r.first, parent |-> c,
                          comments_for_thread |-> r.comments_for_thread,
                          no_comments |-> r.no_comments]
    /\ UNCHANGED <<thrComments, thrStaff>>
    /\ UNCHANGED <<slugVars, raceVars, ordVars, genVars, editVars, hdlVars, mnuVars>>

\* the comments an object can have: replied_to is None or another comment of
\* the same object
ThreadTables ==
    UNION {{f \in [S -> [replied_to_id : {0} \cup S, val : {0, 1}]] :
               \A c \in S : f[c].replied_to_id # c} :
           S \in {1..n : n \in 0..MaxComments}}

InitThread ==
    /\ InitSlug
    /\ InitMnuIdle
    /\ InitRaceIdle
    /\ InitOrdIdle
    /\ InitGenIdle
    /\ InitEditIdle
    /\ InitHdlIdle
    /\ InitMnuIdle
    /\ thrComments \in ThreadTables
    /\ thrStaff \in BOOLEAN
    /\ thrCtx = [set |-> FALSE, all_comments |-> <<>>]
    /\ thrStack = <<>>
    /\ thrOut = <<>>
    /\ thrLast = NoThreadCall

NextThread == ThreadFirst \/ ThreadReply

SpecThread == InitThread /\ [][NextThread]_vars

-----------------------------------------------------------------------------
(* page_menu (pages/templatetags/pages_tags.py) *)

\* Page.objects.published(for_user=user): the pages the manager returns
published(pages) == {p \in DOMAIN pages : pages[p].published}

\* line 52: the orders .order_by("_order") can return the pages of S in; the
\* database settles ties
order_by(pages, S) ==
    {q \in [1..Cardinality(S) -> S] :
        /\ \A j, k \in DOMAIN q : q[j] = q[k] => j = k
        /\ \A j, k \in DOMAIN q : j < k => pages[q[j]]._order <= pages[q[k]]._order}

\* lines 43, 52-55: the defaultdict filled by pages[page.parent_id].append(page)
\* in the order of the queryset
GroupByParent(pages, qs) ==
    [k \in {pages[qs[i]].parent_id : i \in DOMAIN qs} |->
        LET UnderK(c) == pages[c].parent_id = k
        IN  SelectSeq(qs, UnderK)]

\* page_menu taking the level of a branch from context["branch_level"] + 1
\* instead of the level stored against the parent page
page_menuContextLevel(ctx, named, parent, pages, levels, qs) ==
    IF ~named /\ ~ctx.has_template
    THEN [raised |-> TRUE, ctx |-> ctx, levels |-> levels, page_branch |-> <<>>,
          branch_level |-> 0]
    ELSE LET menu_pages   == IF ctx.has_pages THEN ctx.menu_pages
                             ELSE GroupByParent(pages, qs)
             branch_level == IF parent # 0 THEN ctx.branch_level + 1 ELSE 0
             page_branch  == IF parent \in DOMAIN menu_pages
                             THEN menu_pages[parent] ELSE <<>>
             listed       == {page_branch[i] : i \in DOMAIN page_branch}
         IN  [raised |-> FALSE,
              ctx |-> [has_template |-> TRUE, has_pages |-> TRUE,
                       menu_pages |-> menu_pages, branch_level |-> branch_level],
              levels |-> [c \in DOMAIN levels \cup listed |->
                             IF c \in listed THEN branch_level ELSE levels[c]],
              page_branch |-> page_branch,
              branch_level |-> branch_level]

\* page_menu(context, token): named says whether the tag names the menu
\* template, parent is the parent page the tag names (0: none), qs the
\* queryset read when menu_pages is built
page_menu(ctx, named, parent, pages, levels, qs) ==
    IF ~named /\ ~ctx.has_template                     \* lines 35-40
    THEN [raised |-> TRUE, ctx |-> ctx, levels |-> levels, page_branch |-> <<>>,
          branch_level |-> 0]
    ELSE LET menu_pages   == IF ctx.has_pages THEN ctx.menu_pages   \* lines 42-56
                             ELSE GroupByParent(pages, qs)
             \* lines 63-66: getattr(parent_page, "branch_level", 0) + 1
             branch_level == IF parent # 0
                             THEN (IF parent \in DOMAIN levels
                                   THEN levels[parent] ELSE 0) + 1
                             ELSE 0
             \* line 67: context["menu_pages"].get(parent_page, [])
             page_branch  == IF parent \in DOMAIN menu_pages
                             THEN menu_pages[parent] ELSE <<>>
             listed       == {page_branch[i] : i \in DOMAIN page_branch}
         IN  [raised |-> FALSE,
              ctx |-> [has_template |-> TRUE, has_pages |-> TRUE,
                       menu_pages |-> menu_pages, branch_level |-> branch_level],
              \* lines 68-69
              levels |-> [c \in DOMAIN levels \cup listed |->
                             IF c \in listed THEN branch_level ELSE levels[c]],
              page_branch |-> page_branch,
              branch_level |-> branch_level]

\* what a page_menu call leaves behind
MenuCall(r, parent) ==
    /\ mnuLast' = [called |-> TRUE, raised |-> r.raised, parent |-> parent,
                   page_branch |-> r.page_branch, branch_level |-> r.branch_level]
    /\ mnuCtx' = r.ctx
    /\ mnuLevel' = r.levels

\* a template calls {% page_menu %} or {% page_menu "template" %} with no
\* parent page: the start of a menu
PageMenuTop ==
    /\ mnuStack = <<>>
    /\ \E named \in BOOLEAN, qs \in order_by(mnuPages, published(mnuPages)) :
         LET r == page_menu(mnuCtx, named, 0, mnuPages, mnuLevel, qs)
         IN  /\ MenuCall(r, 0)
             /\ mnuStack' = r.page_branch
    /\ UNCHANGED mnuPages
    /\ UNCHANGED <<slugVars, raceVars, ordVars, genVars, editVars, hdlVars, thrVars>>

\* the menu template calls {% page_menu page %} for the next page of the
\* branch it is listing, and goes through that call's branch before going on
PageMenuChild ==
    /\ mnuStack # <<>>
    /\ \E qs \in order_by(mnuPages, published(mnuPages)) :
         LET c == Head(mnuStack)
             r == page_menu(mnuCtx, FALSE, c, mnuPages, mnuLevel, qs)
         IN  /\ MenuCall(r, c)
             /\ mnuStack' = r.page_branch \o Tail(mnuStack)
    /\ UNCHANGED mnuPages
    /\ UNCHANGED <<slugVars, raceVars, ordVars, genVars, editVars, hdlVars, thrVars>>

\* the menu template lists the next page without a nested menu
PageMenuSkip ==
    /\ mnuStack # <<>>
    /\ mnuStack' = Tail(mnuStack)
    /\ UNCHANGED <<mnuPages, mnuCtx, mnuLevel, mnuLast>>
    /\ UNCHANGED <<slugVars, raceVars, ordVars, genVars, editVars, hdlVars, thrVars>>

\* the page tables: parent is None or another page, _order can repeat
PageTables ==
    UNION {{f \in [S -> [parent_id : {0} \cup S, _order : {0, 1},
                         published : BOOLEAN]] :
               \A c \in S : f[c].parent_id # c} :
           S \in {1..n : n \in 0..MaxPages}}

InitMenu ==
    /\ InitSlug
    /\ InitRaceIdle
    /\ InitOrdIdle
    /\ InitGenIdle
    /\ InitEditIdle
    /\ InitHdlIdle
    /\ InitThrIdle
    /\ mnuPages \in PageTables
    /\ mnuCtx = NoMenuCtx
    /\ mnuLevel = <<>>
    /\ mnuStack = <<>>
    /\ mnuLast = NoMenuCall

NextMenu == PageMenuTop \/ PageMenuChild \/ PageMenuSkip

SpecMenu == InitMenu /\ [][NextMenu]_vars

-----------------------------------------------------------------------------
(* Inline editing (core/views.py, Ownable in core/models.py) *)

\* request.user: can_change stands for has_perm on the object's model
Users ==
    {[id |-> 1, is_superuser |-> FALSE, can_change |-> FALSE],
     [id |-> 2, is_superuser |-> FALSE, can_change |-> TRUE],
     [id |-> 3, is_superuser |-> TRUE, can_change |-> TRUE]}

\* request.POST data for the edited field; "!" does not validate
PostData == {"a", "b", "!"}

\* form.is_valid() of the form get_edit_form builds
FormIsValid(data) == data # "!"

\* Ownable.is_editable
Ownable_is_editable(obj, user) == user.is_superuser \/ user.id = obj.user_id

\* mezzanine.utils.views.is_editable: the object's own is_editable when it has
\* one, else the change permission of the user
is_editable(obj, user) ==
    IF obj.ownable THEN Ownable_is_editable(obj, user) ELSE user.can_change

\* the branch of the edit view taken with the permission checked after the
\* form's validity
EditBranchValidFirst(editable, valid) ==
    IF valid THEN "saved" ELSE IF ~editable THEN "denied" ELSE "invalid"

\* lines 52-61 of edit: the branch taken
EditBranch(editable, valid) ==
    IF ~editable THEN "denied" ELSE IF valid THEN "saved" ELSE "invalid"

\* the response body of each branch
EditResponse(branch) ==
    CASE branch = "denied"  -> "Permission denied"
      [] branch = "saved"   -> ""
      [] branch = "invalid" -> "This field is required."

\* the edit view
Edit ==
    /\ Len(editLog) < MaxLog
    /\ \E user \in Users, id \in DOMAIN editObjs, data \in PostData :
         LET obj    == editObjs[id]
             branch == EditBranch(is_editable(obj, user), FormIsValid(data))
         IN  /\ editObjs' = IF branch = "saved"
                            THEN [editObjs EXCEPT ![id].content = data]
                            ELSE editObjs
             /\ editLog' = IF branch = "saved"
                           THEN Append(editLog, [user |-> user.id, id |-> id])
                           ELSE editLog
             /\ editLast' = [user |-> user, id |-> id, data |-> data,
                             before |-> obj, logged |-> Len(editLog),
                             response |-> EditResponse(branch)]
    /\ UNCHANGED <<slugVars, raceVars, ordVars, genVars, hdlVars, thrVars, mnuVars>>

InitEdit ==
    /\ InitSlug
    /\ InitMnuIdle
    /\ InitThrIdle
    /\ InitHdlIdle
    /\ InitRaceIdle
    /\ InitOrdIdle
    /\ InitGenIdle
    /\ editObjs = <<[ownable |-> TRUE, user_id |-> 1, content |-> "a"],
                    [ownable |-> TRUE, user_id |-> 2, content |-> "a"],
                    [ownable |-> FALSE, user_id |-> 0, content |-> "a"]>>
    /\ editLog = <<>>
    /\ editLast = NoEdit

NextEdit == Edit

SpecEdit == InitEdit /\ [][NextEdit]_vars

-----------------------------------------------------------------------------
(* Claims about Slugged *)

\* C1: after any sequence of Slugged.save calls, with the slug left empty or
\* supplied by the caller, no two stored records of the concrete model have
\* the same slug.
C1_SlugsUnique ==
    \A r1, r2 \in DOMAIN slugRows :
        r1 # r2 => slugRows[r1].slug # slugRows[r2].slug

\* C6: when two requests save a new record with the same title and their
\* queries and inserts interleave, the two stored records end up with
\* different slugs.
C6_RaceSlugsDiffer ==
    (\A p \in DOMAIN racePc : racePc[p] = "done") =>
        \A p, q \in DOMAIN racePc :
            p # q => slugRows[raceId[p]].slug # slugRows[raceId[q]].slug

\* some record other than id has slug s
SlugTaken(id, s) == \E r \in DOMAIN slugRows \ {id} : slugRows[r].slug = s

\* the slug C8 describes for record id with the given title
SlugChoice(id, title) ==
    LET base == get_slug(title)
        free == {i \in 1..(Cardinality(DOMAIN slugRows) + 1) :
                    ~SlugTaken(id, WithIndex(base, i))}
    IN  IF ~SlugTaken(id, base) THEN base
        ELSE WithIndex(base, CHOOSE i \in free : \A j \in free : i <= j)

\* C8: when Slugged.save runs with an empty slug, the stored slug is the base
\* slug get_slug() if no other record has it, and otherwise base-i for the
\* smallest i >= 1 that no other record has; the record's own row is not
\* counted as a conflict.
C8_SlugChoice ==
    (slugLast.id # 0 /\ slugLast.slug = <<>>) =>
        /\ slugLast.id \in DOMAIN slugRows
        /\ slugRows[slugLast.id].slug = SlugChoice(slugLast.id, slugLast.title)

-----------------------------------------------------------------------------
(* Claims about Orderable *)

\* the stored records of the sibling group g of table rows
Siblings(rows, g) == {r \in DOMAIN rows : ordWrt => rows[r].group = g}

\* C2: after any sequence of Orderable.save and Orderable.delete calls the
\* stored _order values of the n records of each sibling group are exactly
\* 0..n-1, with no duplicates and no gaps.
C2_OrderContiguous ==
    \A g \in Groups :
        LET S == Siblings(ordRows, g)
        IN  /\ {ordRows[r].order : r \in S} = 0..(Cardinality(S) - 1)
            /\ \A r1, r2 \in S : r1 # r2 => ordRows[r1].order # ordRows[r2].order

\* the step is a save of a new record / of a stored record / a delete
IsOrdCreate == ordLast'.op = "create" /\ ordRows' # ordRows
IsOrdSave   == ordLast'.op = "save" /\ ordLast' # ordLast
IsOrdDelete == ordLast'.op = "delete" /\ ordRows' # ordRows

\* C9: save of a record whose _order is unset assigns it the number of records
\* already stored in its sibling group, so its _order is strictly greater than
\* that of every existing sibling; a record whose _order is set keeps that
\* value; save changes no other record's _order.
C9_SaveOrder ==
    [][/\ IsOrdCreate =>
            LET S == Siblings(ordRows, ordLast'.group)
            IN  /\ ordRows'[ordLast'.id].order = Cardinality(S)
                /\ \A r \in S : ordRows'[ordLast'.id].order > ordRows[r].order
       /\ IsOrdSave => ordRows'[ordLast'.id].order = ordLast'.order
       /\ (IsOrdCreate \/ IsOrdSave) =>
            \A r \in DOMAIN ordRows \ {ordLast'.id} : ordRows'[r] = ordRows[r]
      ]_vars

\* C10: delete decrements by exactly one the _order of every remaining sibling
\* whose _order was greater than the deleted record's, leaves unchanged the
\* siblings with a smaller _order and every record of another sibling group,
\* and preserves the relative order of the remaining siblings.
C10_DeleteRenumbers ==
    [][IsOrdDelete =>
         LET d    == ordLast'.id
             rest == DOMAIN ordRows \ {d}
             sibs == Siblings(ordRows, ordRows[d].group) \ {d}
         IN  /\ DOMAIN ordRows' = rest
             /\ \A r \in sibs :
                    /\ ordRows[r].order > ordRows[d].order =>
                           ordRows'[r].order = ordRows[r].order - 1
                    /\ ordRows[r].order < ordRows[d].order =>
                           ordRows'[r].order = ordRows[r].order
             /\ \A r \in rest \ sibs : ordRows'[r] = ordRows[r]
             /\ \A x, y \in sibs :
                    ordRows[x].order < ordRows[y].order =>
                        ordRows'[x].order < ordRows'[y].order
      ]_vars

-----------------------------------------------------------------------------
(* Claims about the denormalized fields *)

\* the parent whose related row was saved or deleted last
LastParent == <<genLast.ct, genLast.pk>>

\* the stored rows of one kind that name the parent of the last save or delete
LastRelated(kind) ==
    {x \in DOMAIN genItems :
        /\ genItems[x].kind = kind
        /\ genItems[x].ct = genLast.ct
        /\ genItems[x].pk = genLast.pk}

\* C3: once the post_save or post_delete handler for a comment has finished,
\* the parent's comments_count equals the number of comments related to that
\* parent: the manager's count_queryset() when it defines one, else count().
C3_CommentCountInSync ==
    genLast.kind = "comment" =>
        genParents[LastParent].comments_count =
            IF genCQ
            THEN Cardinality({x \in LastRelated("comment") : genItems[x].val = 1})
            ELSE Cardinality(LastRelated("comment"))

\* a comment was saved on a parent that has two comments, one of them hidden,
\* under a manager with count_queryset()
C3_Witness ==
    /\ genLast.kind = "comment" /\ genLast.op = "save" /\ genCQ
    /\ Cardinality(LastRelated("comment")) = 2
    /\ genParents[LastParent].comments_count = 1

\* C4: after every save or delete of a rating the parent's rating_count is the
\* number of ratings related to it and rating_average is the sum of their
\* values divided by that count, and 0 when the parent has no ratings.
C4_RatingInSync ==
    genLast.kind = "rating" =>
        LET rel == LastRelated("rating")
            n   == Cardinality(rel)
            avg == genParents[LastParent].rating_average
            RECURSIVE Total(_)
            Total(S) == IF S = {} THEN 0
                        ELSE LET x == CHOOSE y \in S : TRUE
                             IN  genItems[x].val + Total(S \ {x})
        IN  /\ genParents[LastParent].rating_count = n
            /\ avg[2] > 0
            /\ IF n = 0 THEN avg[1] = 0 ELSE avg[1] * n = avg[2] * Total(rel)

\* a rating was saved on a parent whose ratings are 1 and 2: average 3/2
C4_Witness ==
    /\ genLast.kind = "rating" /\ genLast.op = "save"
    /\ genParents[LastParent].rating_count = 2
    /\ genParents[LastParent].rating_average = <<3, 2>>

\* the last rating of a parent was deleted: count and average are 0
C4_WitnessEmpty ==
    /\ genLast.kind = "rating" /\ genLast.op = "delete"
    /\ LastRelated("rating") = {}
    /\ genParents[LastParent].rating_average = <<0, 1>>

\* s is the titles list[1..n] written one after the other with exactly one
\* blank between neighbours
SpaceJoined(s, list) ==
    LET n == Len(list)
        RECURSIVE Off(_)
        Off(k) == IF k = 1 THEN 0 ELSE Off(k - 1) + Len(list[k - 1]) + 1
    IN  /\ Len(s) = IF n = 0 THEN 0 ELSE Off(n) + Len(list[n])
        /\ \A k \in 1..n :
               /\ \A c \in 1..Len(list[k]) : s[Off(k) + c] = list[k][c]
               /\ k < n => s[Off(k) + Len(list[k]) + 1] = " "

\* C5: after every save or delete of an assigned keyword the parent's
\* keywords_string is the keywords currently assigned to it joined by a single
\* space, and the empty string when none are assigned.
C5_KeywordsInSync ==
    genLast.kind = "keyword" =>
        LET rel == LastRelated("keyword")
            n   == Cardinality(rel)
        IN  /\ rel = {} => genParents[LastParent].keywords_string = <<>>
            /\ \E order \in [1..n -> rel] :
                   /\ \A a, b \in 1..n : a # b => order[a] # order[b]
                   /\ SpaceJoined(genParents[LastParent].keywords_string,
                                  [k \in 1..n |-> KeywordTitle(genItems[order[k]].val)])

\* an assigned keyword was saved on a parent that has the keywords "x" and "yz"
C5_Witness ==
    /\ genLast.kind = "keyword" /\ genLast.op = "save"
    /\ genParents[LastParent].keywords_string = <<"x", " ", "y", "z">>

-----------------------------------------------------------------------------
(* Claims about the edit view *)

\* the last request changed the object or wrote an admin log entry
EditSaved ==
    \/ editObjs[editLast.id] # editLast.before
    \/ Len(editLog) # editLast.logged

\* C7: the edit view saves the submitted form (changes the object, writes an
\* admin log entry) only when is_editable(obj, request) is true; when it is
\* false the object is left unchanged and the response body is
\* "Permission denied", whether or not the submitted data is valid.
C7_EditAuthorized ==
    editLast.id # 0 =>
        LET editable == is_editable(editLast.before, editLast.user)
        IN  /\ EditSaved => editable
            /\ ~editable =>
                   /\ editObjs[editLast.id] = editLast.before
                   /\ Len(editLog) = editLast.logged
                   /\ editLast.response = "Permission denied"

\* a user who may not edit the object posted valid data that differs from the
\* stored content and was refused
C7_Witness ==
    /\ editLast.id # 0
    /\ ~is_editable(editLast.before, editLast.user)
    /\ FormIsValid(editLast.data)
    /\ editLast.data # editLast.before.content
    /\ editLast.response = "Permission denied"

\* C11: a signal's handlers change no parent row when the instance is not of
\* a related model, or when its content type is neither a model with the field
\* nor a subclass of one; otherwise the only row that may change is the one of
\* that model with the instance's object_pk, and only in the columns of the
\* field for the instance's model
C11_SignalFiltering ==
    [][\A p \in DOMAIN genParents :
          genParents'[p] # genParents[p] =>
              /\ genLast'.kind \in {"comment", "keyword", "rating"}
              /\ genLast'.ct \in {"page", "post", "subpage"}
              /\ p[1] = (IF genLast'.ct = "subpage" THEN "page" ELSE genLast'.ct)
              /\ p[2] = genLast'.pk
              /\ genLast'.kind # "comment" =>
                     genParents'[p].comments_count = genParents[p].comments_count
              /\ genLast'.kind # "keyword" =>
                     genParents'[p].keywords_string = genParents[p].keywords_string
              /\ genLast'.kind # "rating" =>
                     /\ genParents'[p].rating_count = genParents[p].rating_count
                     /\ genParents'[p].rating_average = genParents[p].rating_average
      ]_vars

\* the last signal was a comment saved for the subclass with object_pk 1:
\* page 1 was recounted from its own comments, while page 2, whose count went
\* stale when its comment was moved to page 1, was left as it was
C11_Witness ==
    /\ genLast.op = "save" /\ genLast.kind = "comment"
    /\ genLast.ct = "subpage" /\ genLast.pk = 1
    /\ genParents[<<"page", 1>>].comments_count = 1
    /\ Related(genItems, "comment", <<"page", 1>>) # {}
    /\ genParents[<<"page", 2>>].comments_count = 1
    /\ Related(genItems, "comment", <<"page", 2>>) = {}

\* C12: when two requests each save a comment on the same parent and the
\* steps of their handlers interleave, the parent's comments_count equals the
\* number of comments related to the parent once both requests have finished.
C12_RaceCountInSync ==
    (\A p \in DOMAIN hdlPc : hdlPc[p] = "done") =>
        LET rel == {x \in DOMAIN genItems :
                       /\ genItems[x].kind = "comment"
                       /\ <<genItems[x].ct, genItems[x].pk>> = RaceParent}
        IN  genParents[RaceParent].comments_count =
                IF genCQ THEN Cardinality({x \in rel : genItems[x].val = 1})
                ELSE Cardinality(rel)

-----------------------------------------------------------------------------
(* Claims about comment_thread *)

\* the ids a list of comments holds, the list holding none of them twice
ListsExactly(list, S) ==
    /\ {list[k] : k \in DOMAIN list} = S
    /\ \A j, k \in DOMAIN list : list[j] = list[k] => j = k

RECURSIVE ReachableFrom(_, _)
\* the comments of the set S that hang below the comments R through
\* replied_to links inside S, R included
ReachableFrom(S, R) ==
    LET more == R \cup {c \in S : thrComments[c].replied_to_id \in R}
    IN  IF more = R THEN R ELSE ReachableFrom(S, more)

\* what the claim says of comment_thread, read over the set S of comments
ThreadPartition(S) ==
    /\ thrLast.called /\ thrLast.first =>
           ListsExactly(thrLast.comments_for_thread,
                        {c \in S : thrComments[c].replied_to_id = 0})
    /\ thrLast.called /\ ~thrLast.first =>
           ListsExactly(thrLast.comments_for_thread,
                        {c \in S : thrComments[c].replied_to_id = thrLast.parent})
    /\ thrLast.called => (thrLast.no_comments <=> (thrLast.first /\ S = {}))
    /\ thrLast.called /\ thrStack = <<>> =>
           ListsExactly(thrOut,
                        ReachableFrom(S, {c \in S : thrComments[c].replied_to_id = 0}))

\* C13 as stated: the first call groups the comments of the object and yields
\* those with replied_to_id None, a later call for a comment yields exactly the
\* comments replying to it, a recursive rendering yields every comment
\* reachable from the top level exactly once, and no_comments is true only on
\* the first call when the object has no comments.
C13_ThreadAllComments == ThreadPartition(DOMAIN thrComments)

\* C13, amended: the same with the comments the request is shown in place of
\* the comments of the object: parent.comments.all() for a staff user,
\* parent.comments.visible() for everyone else.
C13_ThreadShownComments ==
    ThreadPartition(IF thrStaff THEN DOMAIN thrComments
                    ELSE {c \in DOMAIN thrComments : thrComments[c].val = 1})

\* a rendering for a non-staff user has finished: a reply to a top-level
\* comment was yielded, and a comment of the object was not, being hidden
C13_Witness ==
    /\ thrLast.called /\ ~thrLast.first /\ thrStack = <<>> /\ ~thrStaff
    /\ \E k \in DOMAIN thrOut : thrComments[thrOut[k]].replied_to_id # 0
    /\ \E c \in DOMAIN thrComments :
           thrComments[c].val = 0 /\ \A k \in DOMAIN thrOut : thrOut[k] # c

-----------------------------------------------------------------------------
(* Claims about page_menu *)

RECURSIVE DepthFrom(_, _)
\* the number of parent links from page p up to a page without parent, counted
\* over at most n links
DepthFrom(p, n) ==
    IF mnuPages[p].parent_id = 0 \/ n = 0 THEN 0
    ELSE 1 + DepthFrom(mnuPages[p].parent_id, n - 1)

\* C14: in renderings that start with no parent page, the pages of the top
\* branch get branch_level 0 and the pages of a parent's branch the parent's
\* branch_level + 1, so a page's branch_level is its depth in the page tree;
\* every branch lists exactly the published pages whose parent_id is the given
\* parent, in increasing _order, and menu_pages is built once per context.
C14_MenuLevels ==
    /\ [](\A p \in DOMAIN mnuLevel :
            mnuLevel[p] = DepthFrom(p, Cardinality(DOMAIN mnuPages)))
    /\ [](mnuLast.called /\ ~mnuLast.raised =>
            LET branch == mnuLast.page_branch
            IN  /\ ListsExactly(branch,
                       {p \in DOMAIN mnuPages :
                           /\ mnuPages[p].published
                           /\ mnuPages[p].parent_id = mnuLast.parent})
                /\ \A j, k \in DOMAIN branch :
                       j < k => mnuPages[branch[j]]._order <= mnuPages[branch[k]]._order
                /\ mnuLast.branch_level =
                       IF mnuLast.parent = 0 THEN 0 ELSE mnuLevel[mnuLast.parent] + 1
                /\ \A k \in DOMAIN branch : mnuLevel[branch[k]] = mnuLast.branch_level)
    /\ [][mnuCtx.has_pages => mnuCtx'.menu_pages = mnuCtx.menu_pages]_vars

\* the menu of a page below the top level has just been listed, its two
\* pages in the order of their _order and against the order of their ids
C14_Witness ==
    /\ mnuLast.called /\ ~mnuLast.raised
    /\ mnuLast.branch_level = 1
    /\ Len(mnuLast.page_branch) = 2
    /\ mnuLast.page_branch[1] > mnuLast.page_branch[2]
    /\ mnuLevel[mnuLast.page_branch[2]] = 1

=========================================================================
